---- MODULE Spec2Model ----
(***************************************************************************)
(* HWOC online enrichment engine (src/HWOC.py): the resolvers              *)
(* _wikipedia_summary, _intel_ark_specs, _techpowerup_gpu_specs, the       *)
(* cache wrapper _cache_or_fetch_json, and the orchestrator                *)
(* enrich_online with its ThreadPoolExecutor.                              *)
(*                                                                         *)
(* Text values that the code only stores (field values, summaries) are     *)
(* represented by their length; text the code inspects (CPU name and       *)
(* manufacturer) is a sequence of characters.                              *)
(***************************************************************************)
EXTENDS Integers, Sequences, FiniteSets, TLC

\* ---------------------------------------------------------------- bounds
\* Largest number of video controllers in an inventory.
MaxGpus == 1
\* Largest configured pool size (--max-workers).
MaxWorkers == 2
\* Number of consecutive program runs over the same persistent cache.
MaxRuns == 2

\* extract[:1200]
SummaryMax == 1200

\* ------------------------------------------------------------------ text
Upper == <<"A","B","C","D","E","F","G","H","I","J","K","L","M",
           "N","O","P","Q","R","S","T","U","V","W","X","Y","Z">>
LowerAlpha == <<"a","b","c","d","e","f","g","h","i","j","k","l","m",
                "n","o","p","q","r","s","t","u","v","w","x","y","z">>

\* The characters of the sample strings of the inventory.
Chars(s) ==
    CASE s = "" -> <<>>
      [] s = "GenuineIntel" -> <<"G","e","n","u","i","n","e","I","n","t","e","l">>
      [] s = "AuthenticAMD" -> <<"A","u","t","h","e","n","t","i","c","A","M","D">>
      [] s = "Intel(R) Core(TM) i7-9700K" ->
            <<"I","n","t","e","l","(","R",")"," ","C","o","r","e","(","T","M",")",
              " ","i","7","-","9","7","0","0","K">>
      [] s = "Intel Xeon E5" ->
            <<"I","n","t","e","l"," ","X","e","o","n"," ","E","5">>
      [] s = "AMD Ryzen 5 3600" ->
            <<"A","M","D"," ","R","y","z","e","n"," ","5"," ","3","6","0","0">>
      [] s = "intel" -> <<"i","n","t","e","l">>
      [] s = "intel " -> <<"i","n","t","e","l"," ">>

\* str.lower() on one character
LowerChar(c) ==
    IF \E i \in 1..26 : Upper[i] = c
    THEN LowerAlpha[CHOOSE i \in 1..26 : Upper[i] = c]
    ELSE c

\* str.lower()
Lower(cs) == [i \in 1..Len(cs) |-> LowerChar(cs[i])]

\* needle in hay
Contains(hay, needle) ==
    \E i \in 0..(Len(hay) - Len(needle)) :
        \A j \in 1..Len(needle) : hay[i + j] = needle[j]

\* hay.startswith(prefix)
StartsWith(hay, prefix) ==
    /\ Len(prefix) <= Len(hay)
    /\ \A j \in 1..Len(prefix) : hay[j] = prefix[j]

\* ------------------------------------------------------- python values
\* None
NoneVal == [py |-> "None"]
\* {}
EmptyDict == <<>>
\* bool(x) for x a dict or None
Truthy(v) == v # NoneVal /\ v # EmptyDict
\* isinstance(data, dict)
IsDict(v) == v # NoneVal

\* s[:n] on a text of length len
\* variant: the text is not cut
TruncateNone(len, n) == len
Truncate(len, n) == IF len <= n THEN len ELSE n

\* OnlineSpec(**v): missing keys take the dataclass defaults
OnlineSpecOf(v) ==
    [source       |-> IF "source" \in DOMAIN v THEN v.source ELSE "",
     official_url |-> IF "official_url" \in DOMAIN v THEN v.official_url ELSE "",
     fields       |-> IF "fields" \in DOMAIN v THEN v.fields ELSE EmptyDict]

\* ------------------------------------------------------------ Cache Store
\* CACHE.get(key): the stored document, or None
CacheGet(c, key) == IF key \in DOMAIN c THEN c[key] ELSE NoneVal
\* CACHE.set(key, data)
CacheSet(c, key, data) == [k \in DOMAIN c \cup {key} |-> IF k = key THEN data ELSE c[k]]
\* CACHE.invalidate(): clears all entries
CacheInvalidate(c) == <<>>

\* ------------------------------------------------------- Source tags
WikiTag == "wikipedia"
IntelTag == "intel_ark"
TpuTag == "techpowerup"

\* cache keys: f"wikipedia:{title}", f"intel:{cpu_name}", f"tpu:{gpu_name}"
KeyOf(resolver, name) ==
    CASE resolver = WikiTag -> "wikipedia:" \o name
      [] resolver = IntelTag -> "intel:" \o name
      [] resolver = TpuTag -> "tpu:" \o name

\* ------------------------------------------------------ Document Fetcher
\* What session.get + raise_for_status can give for one URL: an exception
\* (network failure, timeout, non-2xx status) or a response with a body.
HttpError == [status |-> "error"]
HttpOk(body) == [status |-> "ok", body |-> body]

\* Anchors of a search page: the href, and what the code tests on it.
\* path: which product path the href contains; html: href.endswith(".html");
\* http: href.startswith("http").
AHome    == [href |-> "/", path |-> "none", html |-> FALSE, http |-> FALSE]
ANoHtml  == [href |-> "/products/3", path |-> "/products/", html |-> FALSE, http |-> FALSE]
AProdRel == [href |-> "/products/1.html", path |-> "/products/", html |-> TRUE, http |-> FALSE]
AGpuAbs  == [href |-> "https://www.techpowerup.com/gpu-specs/x.c1.html",
             path |-> "/gpu-specs/", html |-> TRUE, http |-> TRUE]

\* Sample search pages (soup.select("a") in document order).
SearchPages == { <<>>, <<AHome, ANoHtml>>, <<AHome, AProdRel>>, <<AGpuAbs, AHome>> }

\* Sample detail pages: dl = the dt/dd pairs, table = the two-cell rows,
\* title = length of the <title> text, or -1 when there is no <title>.
\* A pair maps the label to the length of its normalised value.
PageDl     == [dl |-> [x \in {"TDP", "Socket"} |-> 4], table |-> <<>>, title |-> 9]
PageTable  == [dl |-> <<>>, table |-> [x \in {"Socket"} |-> 4], title |-> 9]
PageBare   == [dl |-> <<>>, table |-> <<>>, title |-> -1]
PageMixed  == [dl |-> <<>>, table |-> [x \in {"TDP", "Socket"} |-> 4], title |-> 9]
DetailPages == { PageDl, PageTable, PageBare, PageMixed }

\* Sample MediaWiki search answers (parsed JSON).
WikiPageId == 42
WikiSearchJson ==
    { <<>>,
      [query |-> [search |-> <<>>]],
      [query |-> [search |-> << [pageid |-> WikiPageId] >>]] }

\* Sample lengths of the plain-text extract.
ExtractLens == {0, 1201}
WikiExtractJson ==
    { <<>> } \cup
    { [query |-> [pages |-> [p \in {WikiPageId} |-> [extract |-> n]]]] : n \in ExtractLens }

\* dict.get(k, default)
DictGet(d, k, default) == IF k \in DOMAIN d THEN d[k] ELSE default

\* product path pattern and site prefix of a vendor source
LinkPattern(resolver) ==
    IF resolver = IntelTag THEN "/products/" ELSE "/gpu-specs/"
SitePrefix(resolver) ==
    IF resolver = IntelTag THEN "https://ark.intel.com" ELSE "https://www.techpowerup.com"

\* wanted labels of a vendor source
Wanted(resolver) ==
    IF resolver = IntelTag
    THEN {"Total Cores", "Total Threads", "Max Turbo Frequency",
          "Processor Base Frequency", "Cache", "Bus Speed", "TDP", "Lithography",
          "Max Memory Size", "Memory Types", "Max # of PCI Express Lanes",
          "Processor Graphics"}
    ELSE {"GPU Name", "GPU Variant", "Architecture", "Foundry", "Process Size", "TDP",
          "Transistors", "Die Size", "Base Clock", "Boost Clock", "Memory Size",
          "Memory Type", "Memory Bus", "Bandwidth", "Release Date"}

\* next((h for a in soup.select("a") if pattern in h and h.endswith(".html")), None)
LinkMatches(resolver, a) == a.path = LinkPattern(resolver) /\ a.html
FirstLink(resolver, page) ==
    IF \E i \in 1..Len(page) : LinkMatches(resolver, page[i])
    THEN page[CHOOSE i \in 1..Len(page) :
                /\ LinkMatches(resolver, page[i])
                /\ \A j \in 1..(i - 1) : ~LinkMatches(resolver, page[j])]
    ELSE NoneVal

\* href if href.startswith("http") else f"{site}{href}"
AbsoluteUrl(resolver, a) == IF a.http THEN a.href ELSE SitePrefix(resolver) \o a.href

\* The raw label/value pairs of a detail page: Intel reads the dt/dd pairs and
\* only when there are none the table rows; TechPowerUp reads the table rows.
RawSpecs(resolver, page) ==
    IF resolver = IntelTag
    THEN (IF page.dl # EmptyDict THEN page.dl ELSE page.table)
    ELSE page.table

\* {k: v for k, v in specs.items() if k in wanted}
Filtered(resolver, specs) ==
    [k \in DOMAIN specs \cap Wanted(resolver) |-> specs[k]]

\* normspace(psoup.title.get_text()) if psoup.title else name
TitleOf(page, name) == IF page.title >= 0 THEN page.title ELSE Len(name)

\* variant: the allow-listed pairs, also when there are none
FieldsFilteredOnly(resolver, page, name) == Filtered(resolver, RawSpecs(resolver, page))
\* filtered or specs or {"title": title}
FieldsOf(resolver, page, name) ==
    LET specs == RawSpecs(resolver, page)
        filtered == Filtered(resolver, specs)
    IN  IF filtered # EmptyDict THEN filtered
        ELSE IF specs # EmptyDict THEN specs
        ELSE [x \in {"title"} |-> TitleOf(page, name)]

\* the dict a vendor fetch() returns after a detail page was parsed
VendorResult(resolver, url, page, name) ==
    [source |-> resolver, official_url |-> url, fields |-> FieldsOf(resolver, page, name)]

\* j.get("query", {}).get("search", [{}])[0].get("pageid"); the [0] raises
\* IndexError on an empty list. A missing pageid (None) is written 0: the code
\* only tests it with "if not pageid".
WikiSearchRaises(j) ==
    LET search == DictGet(DictGet(j, "query", EmptyDict), "search", << EmptyDict >>)
    IN  Len(search) = 0
PageIdOf(j) ==
    LET search == DictGet(DictGet(j, "query", EmptyDict), "search", << EmptyDict >>)
    IN  DictGet(search[1], "pageid", 0)

\* pages.get(str(pageid), {}).get("extract", "")  -- as a length
ExtractOf(j2, pageid) ==
    LET pages == DictGet(DictGet(j2, "query", EmptyDict), "pages", EmptyDict)
    IN  DictGet(DictGet(pages, pageid, EmptyDict), "extract", 0)

\* the dict the fallback fetch() returns on success
WikiResult(pageid, extract) ==
    [source |-> WikiTag,
     official_url |-> "https://en.wikipedia.org/?curid=" \o ToString(pageid),
     fields |-> [summary |-> Truncate(extract, SummaryMax)]]

\* ------------------------------------------------------------ inventory
\* rep.cpu: None, or name and manufacturer
CpuSamples ==
    { NoneVal,
      [name |-> "Intel(R) Core(TM) i7-9700K", manufacturer |-> "GenuineIntel"],
      [name |-> "Intel(R) Core(TM) i7-9700K", manufacturer |-> ""],
      [name |-> "Intel Xeon E5", manufacturer |-> ""],
      [name |-> "AMD Ryzen 5 3600", manufacturer |-> "AuthenticAMD"] }
\* gpu.name of a video controller ("" when WMI gives none)
GpuNames == {"", "RTX 3080"}

SeqsUpTo(S, n) == UNION { [1..m -> S] : m \in 0..n }

Inventories == [cpu : CpuSamples, gpus : SeqsUpTo(GpuNames, MaxGpus)]

\* "intel" in manufacturer.lower() or name.lower().startswith("intel ")
IsIntel(cpu) ==
    \/ Contains(Lower(Chars(cpu.manufacturer)), Chars("intel"))
    \/ StartsWith(Lower(Chars(cpu.name)), Chars("intel "))

\* the resolver the CPU task calls
CpuResolver(cpu) == IF IsIntel(cpu) THEN IntelTag ELSE WikiTag

\* f"gpu{i}"
\* variant: GPUs numbered from 1
GpuKeyOneBased(i) == "gpu" \o ToString(i + 1)
GpuKey(i) == "gpu" \o ToString(i)

\* --------------------------------------------------------------- state
VARIABLES
    inv,         \* rep.cpu and rep.gpus, as collect_local left them
    maxWorkers,  \* self.max_workers
    faulty,      \* environment: whether the Cache Store's storage can fail
    cache,       \* the Cache Store: key -> document
    run,         \* which program run this is
    refreshed,   \* args.refresh_cache of this run
    mainPc,      \* position of the thread inside enrich_online
    gi,          \* index of the GPU loop (enumerate(rep.gpus))
    futures,     \* the futures list; each entry carries its task's position
    online,      \* rep.online
    prev,        \* history: id -> what the task of that id returned last run
    stale,       \* history: keys cached at the last invalidate(), not looked up since
    assigns      \* history: id -> number of assignments to rep.online[id] this run

vars == <<inv, maxWorkers, faulty, cache, run, refreshed, mainPc, gi, futures, online, prev,
          stale, assigns>>

\* A submitted task. pc is where its thread is:
\*   queued     submitted, not yet taken by a worker thread
\*   v_search   vendor resolver, inside _http_get for the search page
\*   v_detail   vendor resolver, inside _http_get for the detail page
\*   w_search   fallback resolver, inside _http_get for the search answer
\*   w_extract  fallback resolver, inside _http_get for the extract answer
\*   v_set      _wikipedia_summary has returned into the vendor fetch(); next
\*              is line 223 with the vendor key
\*   returned   the resolver returned data; raised: an exception left it
\* wmode is how _wikipedia_summary was entered: "direct" (by the task),
\*   "nolink" (line 260/292, inside the try), "except" (line 279/309),
\*   "retry" (line 279/309 after the call of line 260/292 raised); "none": not
\*   inside _wikipedia_summary or its caller's fetch().
\* nolink (history): the vendor search page of this call held no matching link.
NewTask(id, resolver, name) ==
    [id |-> id, resolver |-> resolver, name |-> name, pc |-> "queued",
     wmode |-> "none", nolink |-> FALSE, data |-> NoneVal, url |-> "", pageid |-> 0,
     collected |-> FALSE]

Tasks == 1..Len(futures)

\* inside _http_get
InFetch(t) == t.pc \in {"v_search", "v_detail", "w_search", "w_extract"}
\* taken by a worker thread and not finished
Running(t) == t.pc \notin {"queued", "returned", "raised"}
RunningCount == Cardinality({k \in Tasks : Running(futures[k])})
InFlight == Cardinality({k \in Tasks : InFetch(futures[k])})

\* whether one CACHE.get / CACHE.set call succeeds (TRUE) or raises (FALSE)
CacheOutcomes == IF faulty THEN {TRUE, FALSE} ELSE {TRUE}
\* the same for a call and for the call the except clause makes if it raises
CacheOutcomes2 == IF faulty THEN {<<TRUE, TRUE>>, <<FALSE, TRUE>>, <<FALSE, FALSE>>}
                  ELSE {<<TRUE, TRUE>>}

InitRun ==
    /\ inv \in Inventories
    /\ maxWorkers \in 1..MaxWorkers
    /\ cache = <<>>
    /\ run = 1
    /\ refreshed = FALSE
    /\ mainPc = "cpu"
    /\ gi = 0
    /\ futures = <<>>
    /\ online = <<>>
    /\ prev = <<>>
    /\ stale = {}
    /\ assigns = <<>>

\* ------------------------------------------------ enrich_online: submit
\* d[k] = v on a dict
DictPut(d, k, v) == [x \in DOMAIN d \cup {k} |-> IF x = k THEN v ELSE d[x]]

\* lines 451-456: the CPU task, when rep.cpu and rep.cpu.name
SubmitCpu ==
    /\ mainPc = "cpu"
    /\ futures' = IF inv.cpu # NoneVal /\ inv.cpu.name # ""
                  THEN Append(futures, NewTask("cpu", CpuResolver(inv.cpu), inv.cpu.name))
                  ELSE futures
    /\ mainPc' = "gpus"
    /\ gi' = 0
    /\ UNCHANGED <<inv, maxWorkers, faulty, cache, run, refreshed, online, prev, stale, assigns>>

\* lines 459-461: one iteration of the GPU loop
SubmitGpu ==
    /\ mainPc = "gpus"
    /\ gi < Len(inv.gpus)
    /\ futures' = IF inv.gpus[gi + 1] # ""
                  THEN Append(futures, NewTask(GpuKey(gi), TpuTag, inv.gpus[gi + 1]))
                  ELSE futures
    /\ gi' = gi + 1
    /\ UNCHANGED <<inv, maxWorkers, faulty, cache, run, refreshed, mainPc, online, prev, stale, assigns>>

\* line 464: the GPU loop is over, as_completed(futures) starts
AsCompleted ==
    /\ mainPc = "gpus"
    /\ gi = Len(inv.gpus)
    /\ mainPc' = "collect"
    /\ UNCHANGED <<inv, maxWorkers, faulty, cache, run, refreshed, gi, futures, online, prev, stale,
                   assigns>>

\* ------------------------------------------ _cache_or_fetch_json, line 220
\* if cached:
\* variant: the cached document is never used
CacheMissAlways(cached) == FALSE
CacheHit(cached) == Truthy(cached)

\* ------------------------------------------------- _wikipedia_summary
\* _wikipedia_summary returns data to its caller: to the task itself, or to the
\* vendor fetch(), which returns it to _cache_or_fetch_json (lines 222-223)
WikiReturns(t, data) ==
    IF t.wmode = "direct"
    THEN [t EXCEPT !.pc = "returned", !.wmode = "none", !.data = data, !.pageid = 0]
    ELSE [t EXCEPT !.pc = "v_set", !.data = data, !.pageid = 0]

\* an exception leaves the resolver and ends the task
Raised(t) ==
    [t EXCEPT !.pc = "raised", !.wmode = "none", !.data = NoneVal, !.url = "", !.pageid = 0]

\* _wikipedia_summary(name) is called from the task or from an except clause
\* (lines 248, 219-222): the lookup raises (ok = FALSE), hits, or misses and
\* fetch() sends the search request (line 235)
WikiEnter(t, mode, c, ok) ==
    LET cached == CacheGet(c, KeyOf(WikiTag, t.name))
        u == [t EXCEPT !.wmode = mode, !.url = ""]
    IN  IF ~ok THEN Raised(u)
        ELSE IF CacheHit(cached) THEN WikiReturns(u, cached)
        ELSE [u EXCEPT !.pc = "w_search"]

\* the same call made inside the try (lines 260, 292): an exception it raises
\* is caught by the except clause, which calls _wikipedia_summary again
WikiEnterNoLink(t, c, ok, ok2) ==
    IF ok THEN WikiEnter(t, "nolink", c, TRUE)
    ELSE WikiEnter(t, "retry", c, ok2)

\* lines 223-226 for key wikipedia:<title>, after fetch() returned data; gives
\* the task and the cache. A set that raises inside the try of the vendor
\* fetch() is followed by the except clause's call of _wikipedia_summary.
WikiFinish(t, c, data, ok, ok2) ==
    IF ~IsDict(data) THEN [t |-> WikiReturns(t, EmptyDict), c |-> c]
    ELSE IF ok
    THEN [t |-> WikiReturns(t, data), c |-> CacheSet(c, KeyOf(WikiTag, t.name), data)]
    ELSE IF t.wmode = "nolink"
    THEN [t |-> WikiEnter(t, "retry", c, ok2), c |-> c]
    ELSE [t |-> Raised(t), c |-> c]

\* what fetch() gives when its try block fails: except Exception: return {}
\* (lines 246-247)
\* variant: the exception is not caught
WikiFailureThrows(t, c, ok, ok2) == [t |-> Raised(t), c |-> c]
WikiFailure(t, c, ok, ok2) == WikiFinish(t, c, EmptyDict, ok, ok2)

\* the answers _http_get can give to the two requests of the fallback fetch()
WikiSearchResponses == {HttpError} \cup {HttpOk(j) : j \in WikiSearchJson}
WikiExtractResponses == {HttpError} \cup {HttpOk(j) : j \in WikiExtractJson}

\* lines 235-238 on the search answer: the task and the cache afterwards
WikiSearchOutcome(t, c, resp, ok, ok2) ==
    IF resp = HttpError \/ WikiSearchRaises(resp.body)
    THEN WikiFailure(t, c, ok, ok2)
    ELSE IF PageIdOf(resp.body) = 0
    THEN WikiFinish(t, c, EmptyDict, ok, ok2)
    ELSE [t |-> [t EXCEPT !.pc = "w_extract", !.pageid = PageIdOf(resp.body)], c |-> c]

\* lines 241-245 on the extract answer: the task and the cache afterwards
WikiExtractOutcome(t, c, resp, ok, ok2) ==
    IF resp = HttpError
    THEN WikiFailure(t, c, ok, ok2)
    ELSE WikiFinish(t, c, WikiResult(t.pageid, ExtractOf(resp.body, t.pageid)), ok, ok2)

\* lines 235-240: the search answer arrives
WikiSearchDone(k) ==
    LET t == futures[k]
    IN  /\ t.pc = "w_search"
        /\ \E resp \in WikiSearchResponses,
              oks \in CacheOutcomes2 :
              LET r == WikiSearchOutcome(t, cache, resp, oks[1], oks[2])
              IN  /\ futures' = [futures EXCEPT ![k] = r.t]
                  /\ cache' = r.c
                  /\ stale' = IF r.t.wmode # t.wmode
                              THEN stale \ {KeyOf(WikiTag, t.name)} ELSE stale
        /\ UNCHANGED <<inv, maxWorkers, faulty, run, refreshed, mainPc, gi, online, prev, assigns>>

\* lines 241-245: the extract answer arrives
WikiExtractDone(k) ==
    LET t == futures[k]
    IN  /\ t.pc = "w_extract"
        /\ \E resp \in WikiExtractResponses,
              oks \in CacheOutcomes2 :
              LET r == WikiExtractOutcome(t, cache, resp, oks[1], oks[2])
              IN  /\ futures' = [futures EXCEPT ![k] = r.t]
                  /\ cache' = r.c
                  /\ stale' = IF r.t.wmode # t.wmode
                              THEN stale \ {KeyOf(WikiTag, t.name)} ELSE stale
        /\ UNCHANGED <<inv, maxWorkers, faulty, run, refreshed, mainPc, gi, online, prev, assigns>>

\* --------------------------- _intel_ark_specs / _techpowerup_gpu_specs
\* lines 223-226 for the vendor key, after the vendor fetch() returned data;
\* gives the task and the cache
\* variant: a result that came from the fallback is returned without being
\* stored under the vendor key
VendorFinishSkipsFallback(t, c, data, ok) ==
    [t |-> IF IsDict(data) /\ ~ok THEN Raised(t)
           ELSE [t EXCEPT !.pc = "returned", !.wmode = "none", !.url = "",
                          !.data = IF IsDict(data) THEN data ELSE EmptyDict],
     c |-> IF IsDict(data) /\ ok /\ OnlineSpecOf(data).source \in {IntelTag, TpuTag}
           THEN CacheSet(c, KeyOf(t.resolver, t.name), data) ELSE c]
VendorFinish(t, c, data, ok) ==
    IF ~IsDict(data)
    THEN [t |-> [t EXCEPT !.pc = "returned", !.wmode = "none", !.data = EmptyDict,
                          !.url = ""],
          c |-> c]
    ELSE IF ok
    THEN [t |-> [t EXCEPT !.pc = "returned", !.wmode = "none", !.data = data, !.url = ""],
          c |-> CacheSet(c, KeyOf(t.resolver, t.name), data)]
    ELSE [t |-> Raised(t), c |-> c]

\* the except clause of the vendor fetch(): return self._wikipedia_summary(name)
\* (lines 278-279, 308-309)
VendorFailure(t, c, ok) == WikiEnter(t, "except", c, ok)

\* if not href: return self._wikipedia_summary(name)  (lines 259-260, 291-292)
\* variant: an empty result under the vendor tag instead of the fallback call
NoLinkKeepsVendor(t, c, ok, ok2) ==
    [t EXCEPT !.pc = "v_set", !.wmode = "nolink", !.nolink = TRUE,
              !.data = [source |-> t.resolver, official_url |-> "", fields |-> EmptyDict]]
NoLink(t, c, ok, ok2) == WikiEnterNoLink([t EXCEPT !.nolink = TRUE], c, ok, ok2)

\* ------------------------------------------------- the worker pool
\* ThreadPoolExecutor(max_workers=self.max_workers), line 448: a work item is
\* taken only by one of at most max_workers threads
\* variant: a pool without a limit
PoolUnbounded == TRUE
PoolHasRoom == RunningCount < maxWorkers

\* A worker thread takes the oldest queued work item and calls the resolver
\* (lines 454, 456, 461), which starts with the cache lookup of lines 219-222:
\* it raises, hits, or misses and fetch() sends the first request.
Start(k) ==
    LET t == futures[k]
        cached == CacheGet(cache, KeyOf(t.resolver, t.name))
    IN  /\ t.pc = "queued"
        /\ \A j \in 1..(k - 1) : futures[j].pc # "queued"
        /\ PoolHasRoom
        /\ \E ok \in CacheOutcomes :
              futures' = [futures EXCEPT ![k] =
                 IF t.resolver = WikiTag THEN WikiEnter(t, "direct", cache, ok)
                 ELSE IF ~ok THEN Raised(t)
                 ELSE IF CacheHit(cached) THEN [t EXCEPT !.pc = "returned", !.data = cached]
                 ELSE [t EXCEPT !.pc = "v_search"]]
        /\ stale' = stale \ {KeyOf(t.resolver, t.name)}
        /\ UNCHANGED <<inv, maxWorkers, faulty, cache, run, refreshed, mainPc, gi, online, prev,
                       assigns>>

\* lines 256-263 / 288-295: the search page arrives
VendorSearchDone(k) ==
    LET t == futures[k]
    IN  /\ t.pc = "v_search"
        /\ \E resp \in {HttpError} \cup {HttpOk(p) : p \in SearchPages},
              oks \in CacheOutcomes2 :
              LET ok == oks[1]
                  ok2 == oks[2]
                  link == IF resp = HttpError THEN NoneVal
                          ELSE FirstLink(t.resolver, resp.body)
                  u == IF resp = HttpError THEN VendorFailure(t, cache, ok)
                       ELSE IF link = NoneVal THEN NoLink(t, cache, ok, ok2)
                       ELSE [t EXCEPT !.pc = "v_detail",
                                      !.url = AbsoluteUrl(t.resolver, link)]
              IN  /\ futures' = [futures EXCEPT ![k] = u]
                  /\ stale' = IF u.pc = "v_detail" THEN stale
                              ELSE stale \ {KeyOf(WikiTag, t.name)}
        /\ UNCHANGED <<inv, maxWorkers, faulty, cache, run, refreshed, mainPc, gi, online, prev,
                       assigns>>

\* lines 263-277 / 295-307: the detail page arrives and is parsed
VendorDetailDone(k) ==
    LET t == futures[k]
    IN  /\ t.pc = "v_detail"
        /\ \E resp \in {HttpError} \cup {HttpOk(p) : p \in DetailPages},
              ok \in CacheOutcomes :
              LET r == IF resp = HttpError
                       THEN [t |-> VendorFailure(t, cache, ok), c |-> cache]
                       ELSE VendorFinish(t, cache,
                               VendorResult(t.resolver, t.url, resp.body, t.name), ok)
              IN  /\ futures' = [futures EXCEPT ![k] = r.t]
                  /\ cache' = r.c
                  /\ stale' = IF resp = HttpError
                              THEN stale \ {KeyOf(WikiTag, t.name)} ELSE stale
        /\ UNCHANGED <<inv, maxWorkers, faulty, run, refreshed, mainPc, gi, online, prev, assigns>>

\* lines 223-226 for the vendor key, with the data _wikipedia_summary gave
VendorStore(k) ==
    LET t == futures[k]
    IN  /\ t.pc = "v_set"
        /\ \E ok \in CacheOutcomes :
              LET r == VendorFinish(t, cache, t.data, ok)
              IN  /\ futures' = [futures EXCEPT ![k] = r.t]
                  /\ cache' = r.c
        /\ UNCHANGED <<inv, maxWorkers, faulty, run, refreshed, mainPc, gi, online, prev, stale,
                       assigns>>

\* ------------------------------------------------ enrich_online: collect
\* except Exception: continue  (lines 468-469)
\* variant: the exception ends the collection
AbortsBatch == "aborted"
AfterException == "collect"

\* lines 464-469: as_completed yields a finished future
Collect(k) ==
    LET t == futures[k]
    IN  /\ mainPc = "collect"
        /\ t.pc \in {"returned", "raised"}
        /\ ~t.collected
        /\ futures' = [futures EXCEPT ![k].collected = TRUE]
        /\ IF t.pc = "returned"
           THEN /\ online' = DictPut(online, t.id, OnlineSpecOf(t.data))
                /\ assigns' = DictPut(assigns, t.id,
                                  IF t.id \in DOMAIN assigns THEN assigns[t.id] + 1 ELSE 1)
                /\ mainPc' = mainPc
           ELSE /\ mainPc' = AfterException
                /\ UNCHANGED <<online, assigns>>
        /\ UNCHANGED <<inv, maxWorkers, faulty, cache, run, refreshed, gi, prev, stale>>

\* variant: the loop is left without waiting for the futures
ReturnsEarly == TRUE
\* as_completed(futures) is exhausted: every future was yielded (line 464)
AllYielded == \A k \in Tasks : futures[k].collected

\* line 471: every future was yielded, the pool is shut down, rep is returned
Return ==
    /\ mainPc = "collect"
    /\ AllYielded
    /\ mainPc' = "done"
    /\ UNCHANGED <<inv, maxWorkers, faulty, cache, run, refreshed, gi, futures, online, prev, stale,
                   assigns>>

\* --------------------------------------------------------------- main
\* if args.refresh_cache: CACHE.invalidate()  (lines 683-684)
\* variant: --refresh-cache has no effect
RefreshIgnored(refresh, c) == c
RefreshCache(refresh, c) == IF refresh THEN CacheInvalidate(c) ELSE c

\* what the task with this id returned in the run that just ended
LastResult(id) ==
    LET k == CHOOSE k \in Tasks : futures[k].id = id
    IN  IF futures[k].pc = "returned" THEN futures[k].data ELSE NoneVal

\* the program is run again on the same machine (lines 683-692)
NextRun(refresh) ==
    /\ mainPc = "done"
    /\ run < MaxRuns
    /\ run' = run + 1
    /\ refreshed' = refresh
    /\ cache' = RefreshCache(refresh, cache)
    /\ stale' = IF refresh THEN stale \cup DOMAIN cache ELSE stale
    /\ prev' = [id \in {futures[k].id : k \in Tasks} |-> LastResult(id)]
    /\ mainPc' = "cpu"
    /\ gi' = 0
    /\ futures' = <<>>
    /\ online' = <<>>
    /\ assigns' = <<>>
    /\ UNCHANGED <<inv, maxWorkers, faulty>>

\* ---------------------------------------------------- specifications
\* one call of enrich_online
Next ==
    \/ SubmitCpu
    \/ SubmitGpu
    \/ AsCompleted
    \/ \E k \in Tasks : Start(k)
    \/ \E k \in Tasks : VendorSearchDone(k)
    \/ \E k \in Tasks : VendorDetailDone(k)
    \/ \E k \in Tasks : VendorStore(k)
    \/ \E k \in Tasks : WikiSearchDone(k)
    \/ \E k \in Tasks : WikiExtractDone(k)
    \/ \E k \in Tasks : Collect(k)
    \/ Return

\* consecutive program runs over the persistent cache
NextSeq ==
    \/ Next
    \/ \E refresh \in BOOLEAN : NextRun(refresh)

\* one enrichment; the Cache Store keeps its contract (get and set never raise)
Init == InitRun /\ faulty = FALSE
Spec == Init /\ [][Next]_vars

\* one enrichment; the Cache Store's get and set may raise. One CPU per route
\* (none, vendor resolver, fallback resolver) is enough here.
InitFaulty ==
    /\ InitRun
    /\ faulty = TRUE
    /\ inv.cpu \in {NoneVal,
                    [name |-> "Intel(R) Core(TM) i7-9700K", manufacturer |-> "GenuineIntel"],
                    [name |-> "AMD Ryzen 5 3600", manufacturer |-> "AuthenticAMD"]}
SpecFaulty == InitFaulty /\ [][Next]_vars

\* one enrichment with a raising Cache Store, in which every request returns or
\* times out (session.get(url, timeout=self.timeout), line 213) and every
\* thread that can take a step eventually takes one.
\* A CPU on the fallback route, or none, beside the GPUs on the vendor route.
InitLive ==
    /\ InitFaulty
    /\ inv.cpu \in {NoneVal, [name |-> "AMD Ryzen 5 3600", manufacturer |-> "AuthenticAMD"]}
SpecLive == InitLive /\ [][Next]_vars /\ WF_vars(Next)

\* The program run MaxRuns times in sequence on a machine with one component
\* to enrich: every resolver call follows the previous one, none overlap.
InitSeq == Init /\ Cardinality({i \in 1..Len(inv.gpus) : inv.gpus[i] # ""})
                     + (IF inv.cpu = NoneVal THEN 0 ELSE 1) <= 1
SpecSeq == InitSeq /\ [][NextSeq]_vars

\* The same runs on a machine with one or two video controllers of the same
\* name and no CPU to enrich: with two, both tasks call the same resolver for
\* the same name at the same time.
InitTwin ==
    /\ inv \in [cpu : {NoneVal}, gpus : {<<"RTX 3080">>, <<"RTX 3080", "RTX 3080">>}]
    /\ maxWorkers \in 1..MaxWorkers
    /\ faulty = FALSE
    /\ cache = <<>>
    /\ run = 1
    /\ refreshed = FALSE
    /\ mainPc = "cpu"
    /\ gi = 0
    /\ futures = <<>>
    /\ online = <<>>
    /\ prev = <<>>
    /\ stale = {}
    /\ assigns = <<>>
SpecTwin == InitTwin /\ [][NextSeq]_vars

\* =================================================================
\* Properties
\* =================================================================

\* C1: with the pool sized maxWorkers, at most maxWorkers lookup tasks are
\* inside an outbound fetch (_http_get) at any moment, however many components
\* were submitted.
C1_ConcurrencyBound == InFlight <= maxWorkers

\* C1 witness: the pool is saturated with fetches while a submitted task waits.
C1_Witness ==
    /\ InFlight = maxWorkers
    /\ \E k \in Tasks : futures[k].pc = "queued"

\* C2: a task that ends with a propagated exception never aborts the batch;
\* once enrich_online has returned, the report has no entry for that task and
\* the entry of every task that returned is OnlineSpec(**result) of exactly
\* the result its resolver returned.
C2_FailureIsolation ==
    /\ mainPc # "aborted"
    /\ mainPc = "done" =>
          \A k \in Tasks :
             /\ futures[k].pc = "raised" => futures[k].id \notin DOMAIN online
             /\ futures[k].pc = "returned" =>
                   /\ futures[k].id \in DOMAIN online
                   /\ online[futures[k].id] = OnlineSpecOf(futures[k].data)

\* C2 witness: enrich_online returned, one task raised, its sibling's
\* non-empty result is in the report.
C2_Witness ==
    /\ mainPc = "done"
    /\ \E a \in Tasks, b \in Tasks :
          /\ futures[a].pc = "raised"
          /\ futures[b].pc = "returned"
          /\ Truthy(futures[b].data)
          /\ futures[a].id \notin DOMAIN online
          /\ online[futures[b].id] = OnlineSpecOf(futures[b].data)

\* C3 (as claimed): the Cache Store holds only successfully computed results:
\* the empty result of a failed lookup is never written under any key.
C3_NoFailurePersisted == \A key \in DOMAIN cache : cache[key] # EmptyDict

\* the task of the run before this one, with the same id, returned a dict
\* (possibly the empty one), and the cache was not invalidated in between
SecondCall(t) ==
    /\ run > 1
    /\ ~refreshed
    /\ t.id \in DOMAIN prev
    /\ prev[t.id] # NoneVal

\* C4 (as claimed): whatever the first call returned, the second call of the
\* same resolver for the same name is never inside a fetch and returns a
\* result equal to the first.
C4_IdempotentWhateverOutcome ==
    \A k \in Tasks :
       SecondCall(futures[k]) =>
          /\ ~InFetch(futures[k])
          /\ futures[k].pc = "returned" => futures[k].data = prev[futures[k].id]

\* C4 (amended): when the first call returned a non-empty result, the second
\* call of the same resolver for the same name, with no invalidation in
\* between, is never inside a fetch and returns a result equal to the first.
C4_IdempotentAfterResult ==
    \A k \in Tasks :
       (SecondCall(futures[k]) /\ Truthy(prev[futures[k].id])) =>
          /\ ~InFetch(futures[k])
          /\ futures[k].pc \in {"queued", "returned"}
          /\ futures[k].pc = "returned" => futures[k].data = prev[futures[k].id]

\* C4 witness: a second call has returned the first call's non-empty result.
C4_Witness ==
    \E k \in Tasks :
       /\ SecondCall(futures[k])
       /\ Truthy(prev[futures[k].id])
       /\ futures[k].pc = "returned"
       /\ futures[k].data = prev[futures[k].id]

\* the key the fallback resolver uses for this task's name
WikiKey(t) == KeyOf(WikiTag, t.name)

\* C5: after invalidate(), the first lookup of a key that was cached before
\* does not return the old entry: the lookup misses and the fetch request is
\* sent (the task is inside _http_get right after the lookup).
C5_InvalidationForcesFetch ==
    [][\A k \in Tasks :
          k \in DOMAIN futures' =>
             LET t == futures[k]
                 u == futures'[k]
             IN  /\ (t.pc = "queued" /\ u.pc # "queued"
                        /\ KeyOf(t.resolver, t.name) \in stale)
                       => u.pc \in {"v_search", "w_search"}
                 /\ (t.pc = "v_search" /\ u.pc \notin {"v_search", "v_detail"}
                        /\ WikiKey(t) \in stale)
                       => u.pc = "w_search"
                 /\ (t.pc = "v_detail" /\ u.pc \notin {"v_detail", "returned"}
                        /\ WikiKey(t) \in stale)
                       => u.pc = "w_search"]_vars

\* C5 witness: the cache was invalidated before this run, the task's key held
\* its previous non-empty result, and the task is fetching again.
C5_Witness ==
    /\ refreshed
    /\ run > 1
    /\ \E k \in Tasks :
          /\ futures[k].id \in DOMAIN prev
          /\ Truthy(prev[futures[k].id])
          /\ futures[k].pc \in {"v_search", "w_search"}
          /\ futures[k].wmode \in {"none", "direct"}

\* "gpu<i>" written out, independently of the code's f-string
GpuIdText == <<"gpu0", "gpu1", "gpu2", "gpu3", "gpu4", "gpu5">>
\* the identifiers of the queries an inventory gives rise to
QueryIds(i) ==
    (IF i.cpu # NoneVal /\ i.cpu.name # "" THEN {"cpu"} ELSE {})
    \cup {GpuIdText[n] : n \in {m \in 1..Len(i.gpus) : i.gpus[m] # ""}}

\* C6: the keys of the report are identifiers of submitted queries ("cpu",
\* "gpu<i>" for the GPUs with a non-empty name), and no key is assigned more
\* than once during a run.
C6_ReportKeys ==
    /\ DOMAIN online \subseteq QueryIds(inv)
    /\ \A id \in DOMAIN assigns : assigns[id] <= 1

\* C6 witness: enrich_online returned a report with an entry for the CPU and
\* one for a GPU.
C6_Witness ==
    /\ mainPc = "done"
    /\ Cardinality(DOMAIN online) >= 2
    /\ DOMAIN online = QueryIds(inv)

\* the source tags of the vendor resolvers
VendorTags == {IntelTag, TpuTag}

\* C7 (as claimed): a vendor resolver whose search page held no matching
\* product link returns a result whose source is the fallback resolver's tag.
C7_NoLinkGivesFallbackTag ==
    \A k \in Tasks :
       (futures[k].pc = "returned" /\ futures[k].nolink) =>
          OnlineSpecOf(futures[k].data).source = WikiTag

\* C7 (amended): a vendor resolver whose search page held no matching product
\* link returns either the empty result (the fallback found nothing) or a
\* result whose source is the fallback resolver's tag; never a vendor tag.
C7_NoLinkNeverVendorTag ==
    \A k \in Tasks :
       (futures[k].pc = "returned" /\ futures[k].nolink) =>
          /\ futures[k].data = EmptyDict \/ futures[k].data.source = WikiTag
          /\ OnlineSpecOf(futures[k].data).source \notin VendorTags
          /\ (mainPc = "done" /\ futures[k].id \in DOMAIN online) =>
                online[futures[k].id].source \in {WikiTag, ""}

\* C7 witness: a vendor resolver found no link and returned the fallback's
\* result.
C7_Witness ==
    \E k \in Tasks :
       /\ futures[k].resolver \in VendorTags
       /\ futures[k].pc = "returned"
       /\ futures[k].nolink
       /\ futures[k].data # EmptyDict
       /\ futures[k].data.source = WikiTag

\* the scenario of C8: the only query is the CPU "Intel(R) Core(TM) i7-9700K",
\* the vendor resolver was called for it and its search page held no matching
\* link, and enrich_online has returned
NoLinkScenario ==
    /\ mainPc = "done"
    /\ inv.cpu # NoneVal
    /\ inv.cpu.name = "Intel(R) Core(TM) i7-9700K"
    /\ \A n \in 1..Len(inv.gpus) : inv.gpus[n] = ""
    /\ \E k \in Tasks : futures[k].id = "cpu" /\ futures[k].nolink

\* C8 (as claimed): in the scenario the report has exactly one entry, with
\* source "wikipedia-like" and a single summary field, non-empty and at most
\* 1200 characters long.
C8_EndToEndAsClaimed ==
    NoLinkScenario =>
       /\ DOMAIN online = {"cpu"}
       /\ online["cpu"].source = "wikipedia-like"
       /\ DOMAIN online["cpu"].fields = {"summary"}
       /\ online["cpu"].fields.summary \in 1..SummaryMax

\* C8 (amended): in the scenario the report has no key but "cpu"; when the
\* resolver returned, the entry is there and is either the empty result (the
\* fallback found nothing) or has source "wikipedia" and a single summary
\* field of at most 1200 characters, which may be empty.
C8_EndToEnd ==
    NoLinkScenario =>
       /\ DOMAIN online \subseteq {"cpu"}
       /\ \A k \in Tasks :
             futures[k].pc = "returned" =>
                /\ DOMAIN online = {"cpu"}
                /\ \/ online["cpu"] = OnlineSpecOf(EmptyDict)
                   \/ /\ online["cpu"].source = "wikipedia"
                      /\ DOMAIN online["cpu"].fields = {"summary"}
                      /\ online["cpu"].fields.summary \in 0..SummaryMax

\* C8 witness: the scenario ended with a summary cut to 1200 characters.
C8_Witness ==
    /\ NoLinkScenario
    /\ DOMAIN online = {"cpu"}
    /\ online["cpu"].source = "wikipedia"
    /\ DOMAIN online["cpu"].fields = {"summary"}
    /\ online["cpu"].fields.summary = SummaryMax

\* C9: no exception leaves a vendor resolver, so no task that runs one ends
\* with an exception.
C9_NoEscape ==
    \A k \in Tasks :
       futures[k].resolver \in VendorTags => futures[k].pc # "raised"

\* the answers with which the fallback's search, or its summary fetch, fails
FailedSearch == {r \in WikiSearchResponses : r = HttpError \/ WikiSearchRaises(r.body)}
FailedExtract == {r \in WikiExtractResponses : r = HttpError}

\* what the fallback resolver may do after a failure: hand the empty result to
\* its caller (the task, or the vendor fetch() that called it), for the same
\* call it was in
EmptyHandedBack(t, u) ==
    /\ u.data = EmptyDict
    /\ u.pc = IF t.wmode = "direct" THEN "returned" ELSE "v_set"
    /\ u.pc # "raised"
    /\ u.wmode \in {t.wmode, "none"}
    /\ u.resolver = t.resolver

AllowListed(resolver, raw) ==
    [k \in {x \in DOMAIN raw : x \in Wanted(resolver)} |-> raw[k]]

\* the fields a vendor resolver returns for a detail page, as the task whose
\* detail request is outstanding would return them
FieldsReturned(t, page) ==
    VendorFinish(t, cache, VendorResult(t.resolver, t.url, page, t.name), TRUE).t.data.fields

\* C12: for every detail document with at least one raw label/value pair, the
\* fields returned are the full raw pairs when no label is in the source's
\* allow-list, and exactly the allow-listed pairs when some label is.
C12_ExtractionPreference ==
    \A k \in Tasks :
       futures[k].pc = "v_detail" =>
          \A page \in DetailPages :
             LET raw == RawSpecs(futures[k].resolver, page)
                 allowed == AllowListed(futures[k].resolver, raw)
                 got == FieldsReturned(futures[k], page)
             IN  raw # EmptyDict =>
                    /\ got # EmptyDict
                    /\ allowed = EmptyDict => got = raw
                    /\ allowed # EmptyDict => got = allowed

\* C12 witness: a vendor resolver returned raw pairs none of which is
\* allow-listed, and another time only the allow-listed pair of a document.
C12_Witness ==
    /\ \E k \in Tasks :
          /\ futures[k].pc = "returned"
          /\ Truthy(futures[k].data)
          /\ futures[k].data.source \in VendorTags
          /\ DOMAIN futures[k].data.fields = {"Socket"}
    /\ \E k \in Tasks :
          /\ futures[k].pc = "returned"
          /\ Truthy(futures[k].data)
          /\ futures[k].data.source \in VendorTags
          /\ DOMAIN futures[k].data.fields = {"TDP"}

\* a submitted task has completed: its resolver returned (a result or the
\* empty result) or raised
Completed(t) == t.pc \in {"returned", "raised"}

\* C11: enrich_online never returns while a submitted task is pending or
\* running; and, every fetch returning or timing out, eventually every
\* submitted task has completed and enrich_online has returned.
C11_JoinBarrier ==
    /\ [](mainPc = "done" => \A k \in Tasks : Completed(futures[k]))
    /\ <>(mainPc = "done" /\ \A k \in Tasks : Completed(futures[k]))

\* C11 witness: enrich_online returned after two tasks, one that raised and one
\* that returned the empty result.
C11_Witness ==
    /\ mainPc = "done"
    /\ \E a, b \in Tasks :
          /\ futures[a].pc = "raised"
          /\ futures[b].pc = "returned"
          /\ futures[b].data = EmptyDict

\* C14 (as claimed): the CPU goes to the Intel resolver exactly when "intel"
\* occurs, case-insensitively, in its manufacturer or in its name, and
\* otherwise to the fallback resolver; every GPU with a non-empty name goes to
\* the GPU vendor resolver.
C14_RoutingBySubstring ==
    \A k \in Tasks :
       /\ futures[k].id = "cpu" =>
             futures[k].resolver =
                IF \/ Contains(Lower(Chars(inv.cpu.manufacturer)), Chars("intel"))
                   \/ Contains(Lower(Chars(inv.cpu.name)), Chars("intel"))
                THEN IntelTag ELSE WikiTag
       /\ futures[k].id # "cpu" => futures[k].resolver = TpuTag

\* FETCHING: a request of the task is outstanding, or its answer is being stored
Fetching(t) == t.pc \in {"v_search", "v_detail", "w_search", "w_extract", "v_set"}

\* the steps of one task along PENDING -> CACHE_HIT -> DONE and
\* PENDING -> CACHE_MISS -> FETCHING -> (EXTRACTED | FAILED) -> DONE, from t to u
\* with the cache c before the step
TaskStep(t, u, c) ==
    \/ u = t
    \/ /\ t.pc = "queued"
       /\ \/ /\ u.pc = "returned"
             /\ Truthy(CacheGet(c, KeyOf(t.resolver, t.name)))
             /\ u.data = CacheGet(c, KeyOf(t.resolver, t.name))
          \/ /\ Fetching(u)
             /\ ~Truthy(CacheGet(c, KeyOf(t.resolver, t.name)))
          \/ u.pc = "raised"
    \/ /\ Fetching(t)
       /\ Fetching(u) \/ Completed(u)
    \/ /\ Completed(t)
       /\ u = [t EXCEPT !.collected = TRUE]

\* the task goes on with a request to the vendor source / to Wikipedia
FetchesVendor(u) == u.pc \in {"v_search", "v_detail"}
FetchesWiki(u) == u.pc \in {"w_search", "w_extract"}

\* no source is fetched again by a task after its fetch failed for that task:
\* whatever failing answer arrives for the outstanding request, the task sends
\* no further request to the same source
NoRefetchAfterFailure ==
    \A k \in Tasks :
       LET t == futures[k]
       IN  /\ t.pc = "w_search" =>
                \A resp \in FailedSearch, oks \in CacheOutcomes2 :
                   ~FetchesWiki(WikiSearchOutcome(t, cache, resp, oks[1], oks[2]).t)
           /\ t.pc = "w_extract" =>
                \A resp \in FailedExtract, oks \in CacheOutcomes2 :
                   ~FetchesWiki(WikiExtractOutcome(t, cache, resp, oks[1], oks[2]).t)
           /\ FetchesVendor(t) =>
                \A ok \in CacheOutcomes : ~FetchesVendor(VendorFailure(t, cache, ok))

\* C13: every task moves only along PENDING -> CACHE_HIT -> DONE or
\* PENDING -> CACHE_MISS -> FETCHING -> (EXTRACTED | FAILED) -> DONE, DONE is
\* terminal, and within one run a task never fetches again a source whose
\* fetch has already failed for it.
C13_TaskStateMachine ==
    /\ [][\A k \in Tasks : TaskStep(futures[k], futures'[k], cache)]_futures
    /\ []NoRefetchAfterFailure

\* t's result is non-empty and came from the fallback resolver
FromFallback(data) == Truthy(data) /\ data.source = WikiTag

\* the results that the calls of t's resolver for t's name returned in the run
\* before this one
EarlierResults(t) ==
    { prev[i] : i \in { j \in DOMAIN prev :
                          IF t.id = "cpu" THEN j = "cpu"
                          ELSE \E n \in 1..Len(inv.gpus) :
                                  j = GpuKey(n - 1) /\ inv.gpus[n] = t.name } }

\* no other component of the inventory has the name of t's component, so no
\* other call for that name runs beside t's
Alone(t) ==
    /\ \A n \in 1..Len(inv.gpus) : inv.gpus[n] = t.name => GpuKey(n - 1) = t.id
    /\ (inv.cpu # NoneVal /\ inv.cpu.name = t.name) => t.id = "cpu"

\* a vendor call that returned a fallback result leaves it under both keys
StoredUnderBothKeys(t) ==
    (t.resolver \in VendorTags /\ t.pc = "returned" /\ FromFallback(t.data)) =>
       /\ CacheGet(cache, KeyOf(t.resolver, t.name)) = t.data
       /\ CacheGet(cache, WikiKey(t)) = t.data

\* a later vendor call, with no invalidation in between, does not contact the
\* vendor source and returns the fallback result of the earlier call
LaterCallFromCache(t) ==
    (t.resolver \in VendorTags /\ run > 1 /\ ~refreshed) =>
       \A d \in EarlierResults(t) :
          (d # NoneVal /\ FromFallback(d)) =>
             /\ ~FetchesVendor(t)
             /\ t.pc = "returned" => t.data = d

\* C15 (as claimed): once a vendor resolver got a non-empty result from the
\* fallback for a name, that result is stored under the vendor key and under
\* the fallback's key, and every later call of that resolver for the name,
\* with no invalidation in between, returns it from the cache without
\* contacting the vendor source.
C15_FallbackCachedUnderVendorKey ==
    \A k \in Tasks :
       StoredUnderBothKeys(futures[k]) /\ LaterCallFromCache(futures[k])

\* C15 (amended): the same, for a name for which no other call runs at the
\* same time.
C15_FallbackCachedWhenAlone ==
    \A k \in Tasks :
       Alone(futures[k]) =>
          StoredUnderBothKeys(futures[k]) /\ LaterCallFromCache(futures[k])

\* C15 witness: a vendor call of a later run returned, from the vendor key,
\* the fallback result the call before it had got.
C15_Witness ==
    /\ run > 1
    /\ ~refreshed
    /\ \E k \in Tasks :
          /\ Alone(futures[k])
          /\ futures[k].resolver \in VendorTags
          /\ futures[k].pc = "returned"
          /\ FromFallback(futures[k].data)
          /\ futures[k].data \in EarlierResults(futures[k])
          /\ CacheGet(cache, KeyOf(futures[k].resolver, futures[k].name)) = futures[k].data
====
